---- MODULE Spec2Model ----
(***************************************************************************)
(* A model of wordlistctl.py: the selection of catalog entries by          *)
(* download_wordlists, the worker pool it submits them to, and the         *)
(* per-entry retrieval pipeline of download_wordlist (fetch_file,          *)
(* integrity_check, decompress, fetch_torrent) over a small filesystem,    *)
(* and the retry loop of resolve.                                          *)
(***************************************************************************)
EXTENDS Integers, Sequences, FiniteSets, TLC

(***************************************************************************)
(* Bounds of the model.                                                    *)
(***************************************************************************)
\* the most categories a catalog holds
MaxCats == 2
\* max_retry is drawn from 0..MaxRetry
MaxRetry == 1
\* the most flag options (-h -X -I -T) a command line gives
MaxOpts == 1

(***************************************************************************)
(* Python strings.  TLC evaluates Len, Head, Tail, SubSeq and \o on        *)
(* strings; the order of two characters is the order of their code points. *)
(***************************************************************************)
\* the printable characters of code points 32..95 and 97..126
AsciiLow == " !\"#$%&'()*+,-./0123456789:;<=>?@ABCDEFGHIJKLMNOPQRSTUVWXYZ[\\]^_"
AsciiHigh == "abcdefghijklmnopqrstuvwxyz{|}~"

\* the position of the one-character string c in s, 0 if absent
Find(s, c) ==
    IF \E i \in 1..Len(s) : SubSeq(s, i, i) = c
    THEN CHOOSE i \in 1..Len(s) : SubSeq(s, i, i) = c
    ELSE 0

\* ord(c) of a printable one-character string
Ord(c) == IF Find(AsciiLow, c) > 0 THEN 31 + Find(AsciiLow, c) ELSE 96 + Find(AsciiHigh, c)

\* chr(n) for a lower-case letter n
Chr(n) == SubSeq(AsciiHigh, n - 96, n - 96)

RECURSIVE StrLess(_, _)
\* a < b on str: lexicographic by code point, a proper prefix is smaller
StrLess(a, b) ==
    IF b = "" THEN FALSE
    ELSE IF a = "" THEN TRUE
    ELSE IF Head(a) = Head(b) THEN StrLess(Tail(a), Tail(b))
    ELSE Ord(Head(a)) < Ord(Head(b))

\* s.startswith(p)
StartsWith(s, p) == Len(s) >= Len(p) /\ SubSeq(s, 1, Len(p)) = p

\* s.endswith(p)
EndsWith(s, p) == Len(s) >= Len(p) /\ SubSeq(s, Len(s) - Len(p) + 1, Len(s)) = p

\* the upper-case letters, code points 65..90
UpperChars == {SubSeq(AsciiLow, i, i) : i \in 34..59}

RECURSIVE Lower(_)
\* s.lower()
Lower(s) ==
    IF s = "" THEN ""
    ELSE (IF Head(s) \in UpperChars THEN Chr(Ord(Head(s)) + 32) ELSE Head(s)) \o Lower(Tail(s))

RECURSIVE Replace(_, _)
\* s.replace(old, "")
Replace(s, old) ==
    IF s = "" THEN ""
    ELSE IF StartsWith(s, old) THEN Replace(SubSeq(s, Len(old) + 1, Len(s)), old)
    ELSE Head(s) \o Replace(Tail(s), old)

\* the positions of character c in s
Positions(s, c) == {i \in 1..Len(s) : SubSeq(s, i, i) = c}

\* the largest element of a non-empty set of integers
SetMax(S) == CHOOSE m \in S : \A k \in S : k <= m

\* s.split('/')[-1], which is also os.path.basename(s)
LastSegment(s) ==
    IF Positions(s, "/") = {} THEN s
    ELSE SubSeq(s, SetMax(Positions(s, "/")) + 1, Len(s))

\* os.path.dirname(s) of a path with a directory part that is not the root
Dirname(s) ==
    IF Positions(s, "/") = {} THEN ""
    ELSE SubSeq(s, 1, SetMax(Positions(s, "/")) - 1)

\* os.path.splitext(s)[0]: the last dot of the last segment, unless it leads it
SplitExtRoot(s) ==
    LET base == LastSegment(s)
        dots == {i \in Positions(base, ".") : \E j \in 1..(i - 1) : SubSeq(base, j, j) # "."}
    IN  IF dots = {} THEN s
        ELSE SubSeq(s, 1, Len(s) - Len(base) + SetMax(dots) - 1)

(***************************************************************************)
(* Python lists.                                                           *)
(***************************************************************************)
\* lst[i] with Python's indexing: 0-based, a negative i counts from the end;
\* the result is <<>> when Python raises IndexError, else <<element>>
PyIndex(lst, i) ==
    IF i >= 0 /\ i < Len(lst) THEN <<lst[i + 1]>>
    ELSE IF i < 0 /\ -i <= Len(lst) THEN <<lst[Len(lst) + i + 1]>>
    ELSE <<>>

RECURSIVE Insert(_, _)
\* x inserted into the sorted list s
Insert(s, x) ==
    IF s = <<>> THEN <<x>>
    ELSE IF StrLess(x, Head(s)) THEN <<x>> \o s
    ELSE <<Head(s)>> \o Insert(Tail(s), x)

RECURSIVE Sorted(_)
\* list.sort() on a list of str: the list in ascending order
Sorted(s) == IF s = <<>> THEN <<>> ELSE Insert(Sorted(Tail(s)), Head(s))

\* lst.index(x), 0-based: the first position of x
ListIndex(lst, x) == (CHOOSE i \in 1..Len(lst) : lst[i] = x /\ \A j \in 1..(i - 1) : lst[j] # x) - 1

RECURSIVE SumSeq(_)
SumSeq(s) == IF s = <<>> THEN 0 ELSE Head(s) + SumSeq(Tail(s))

(***************************************************************************)
(* Contents and digests.  md5 is modelled as an injective symbolic digest  *)
(* of the content: two contents have the same hexdigest iff they are equal.*)
(***************************************************************************)
\* hashlib.md5 over the whole file, as hexdigest()
Md5(content) == "md5(" \o content \o ")"

\* the bytes the origin serves for a URL
Payload(url) == "data@" \o url

\* what a transfer can deliver besides the payload
Corrupt == "corrupt"

(***************************************************************************)
(* The catalog (repo.json): insertion-ordered categories, each with its    *)
(* cached count and its files; an entry's url and sum lists are aligned.   *)
(***************************************************************************)
\* two HTTP mirrors of one file, listed in descending order
EntryA ==
    [name |-> "a", url |-> <<"http://b/f.gz", "http://a/f.gz">>,
     sum |-> <<Md5(Payload("http://b/f.gz")), Md5(Payload("http://a/f.gz"))>>,
     size |-> <<10, 20>>]

\* one HTTP URL whose checksum is the sentinel
EntryS ==
    [name |-> "s", url |-> <<"http://h/a.txt.gz">>, sum |-> <<"SKIP">>, size |-> <<10, 20>>]

\* an HTTP archive and a magnet URI
EntryM ==
    [name |-> "m", url |-> <<"http://h/m.zip", "torrent+magnet:?m">>,
     sum |-> <<Md5(Payload("http://h/m.zip")), "SKIP">>, size |-> <<30, 40>>]

\* a .torrent descriptor fetched over HTTP
EntryT ==
    [name |-> "t", url |-> <<"torrent+http://h/t.torrent">>,
     sum |-> <<Md5(Payload("http://h/t.torrent"))>>, size |-> <<50, 60>>]

\* an HTTP entry whose file has the name of EntryT's descriptor, on another host
EntryV ==
    [name |-> "v", url |-> <<"http://g/t.torrent">>,
     sum |-> <<Md5(Payload("http://g/t.torrent"))>>, size |-> <<50, 60>>]

\* an HTTP zip archive alone
EntryZ ==
    [name |-> "z", url |-> <<"http://h/z.zip">>,
     sum |-> <<Md5(Payload("http://h/z.zip"))>>, size |-> <<70, 80>>]

\* an HTTP compressed tar archive alone
EntryY ==
    [name |-> "y", url |-> <<"http://h/y.tar.gz">>,
     sum |-> <<Md5(Payload("http://h/y.tar.gz"))>>, size |-> <<70, 80>>]

Category(n, fs) == [name |-> n, count |-> Len(fs), files |-> fs]

\* the categories catalogs are cut from, in declaration order
FullRepo ==
    <<Category("usernames", <<EntryA, EntryS>>), Category("filenames", <<>>),
      Category("discovery", <<>>), Category("passwords", <<EntryM>>),
      Category("misc", <<EntryT>>)>>

\* a catalog with one category in which two entries share a file name
SameNameRepo == <<Category("torrents", <<EntryT, EntryV>>)>>

\* a catalog with an archive in each of two categories
ArchiveRepo == <<Category("archives", <<EntryZ>>), Category("backups", <<EntryY>>)>>

\* 1..MaxCats consecutive categories of repo
Windows(repo) ==
    {SubSeq(repo, w[1], w[2]) :
        w \in {v \in (1..Len(repo)) \X (1..Len(repo)) : v[1] <= v[2] /\ v[2] - v[1] < MaxCats}}

\* the catalogs a run loads
Catalogs == Windows(FullRepo) \cup Windows(SameNameRepo) \cup {ArchiveRepo}

\* the name the swarm reports for a torrent (handle.name())
TorrentName(source) == IF StartsWith(source, "magnet:?") THEN "m.tar" ELSE "t.txt"

(***************************************************************************)
(* State.                                                                  *)
(***************************************************************************)
VARIABLES
    wordlist_repo,          \* the catalog in memory
    loaded_repo,            \* the catalog as load_config read it
    selected_category,      \* "" or the category -c chose
    prefer_http,            \* -h
    decompress_archive,     \* -X
    skip_integrity_check,   \* -I
    torrent_dl,             \* unset by -T
    max_retry,
    max_parallel,           \* -t
    code,                   \* the wordlist id of -f
    dirs,                   \* the directories that exist
    files,                  \* the files that exist: path -> content
    cwd,                    \* the process's working directory
    torrent_session,        \* 0 for None, else the number of the session object
    sessions,               \* how many session objects were created
    network,                \* whether any network request was made
    mainpc,                 \* where the main thread is in download_wordlists
    lst,                    \* the selected entries not yet submitted
    error,                  \* the exception download_wordlists caught, "" if none
    tasks,                  \* the work items of parallel_executer, in submission order
    exit_status,            \* <<>> while main runs, else <<the status the process ends with>>
    res                     \* a call of resolve: its url, its locals and the resolver's results

vars ==
    <<wordlist_repo, loaded_repo, selected_category, prefer_http, decompress_archive,
      skip_integrity_check, torrent_dl, max_retry, max_parallel, code, dirs, files, cwd,
      torrent_session, sessions, network, mainpc, lst, error, tasks, exit_status, res>>

config == <<loaded_repo, selected_category, prefer_http, decompress_archive,
            skip_integrity_check, torrent_dl, max_retry, max_parallel, code>>

\* wordlist_path
wordlist_path == "/usr/share/wordlists"

\* the value max_parallel has unless -t changes it
DefaultMaxParallel == 5

(***************************************************************************)
(* resolve and the host-specific resolvers.  What the transport answers to *)
(* a resolver's request is an input: "raise" (an exception inside the      *)
(* resolver), "file" (redirected to the file), "page" (an HTML page with a *)
(* download link), "nolink" (an HTML page without one).                    *)
(***************************************************************************)
\* line 219: the most calls of the resolver
ResolveTries == 10

Replies == {"raise", "file", "page", "nolink"}

\* the URL a redirect ends at, and the href of the download link of a page
Redirected(url) == "http://cdn/" \o LastSegment(url)
Href(url) == "http://dl/" \o LastSegment(url)

\* resolve_sourceforge, lines 198-205: the final URL of the GET, '' on an exception
resolve_sourceforge(url, reply) ==
    IF reply = "raise" THEN ""
    ELSE IF reply = "file" THEN Redirected(url)
    ELSE url

\* resolve_mediafire, lines 179-195: the redirect target, else the download link of
\* the page, else the url itself; '' on an exception
resolve_mediafire(url, reply) ==
    IF reply = "raise" THEN ""
    ELSE IF reply = "file" THEN Redirected(url)
    ELSE IF reply = "page" THEN Href(url)
    ELSE url

\* lines 211-214: the resolver chosen for a URL, "" for None
ResolverFor(url) ==
    IF StartsWith(url, "http://downloads.sourceforge.net/") THEN "resolve_sourceforge"
    ELSE IF StartsWith(url, "http://www.mediafire.com/file/") THEN "resolve_mediafire"
    ELSE ""

\* line 220: resolver(url)
CallResolver(resolver, url, reply) ==
    IF resolver = "resolve_sourceforge" THEN resolve_sourceforge(url, reply)
    ELSE resolve_mediafire(url, reply)

\* a loop that goes on calling until the count is used up
LoopsOnCountOnly(resolved, count) == count < ResolveTries

\* line 219: the condition of the while loop
Loops(resolved, count) == (resolved = "") /\ (count < ResolveTries)

\* the values resolve(url) can return
ResolveResults(url) ==
    IF ResolverFor(url) = "" THEN {url}
    ELSE {""} \cup {CallResolver(ResolverFor(url), url, reply) : reply \in Replies}

\* the variables a call of resolve leaves alone
program ==
    <<wordlist_repo, config, dirs, files, cwd, torrent_session, sessions, network, mainpc,
      lst, error, tasks, exit_status>>

\* no call of resolve under way
NoCall == [pc |-> "idle", url |-> "", resolver |-> "", resolved |-> "", count |-> 0, results |-> <<>>]

\* resolve(url) entered: lines 209-210
Called(url) == [NoCall EXCEPT !.pc = "called", !.url = url]

\* lines 211-216: the resolver is chosen; without one the url itself is the result
ResolveChoose ==
    /\ res.pc = "called"
    /\ LET resolver == ResolverFor(res.url)
       IN  res' = IF resolver = ""
                  THEN [res EXCEPT !.resolved = res.url, !.pc = "return"]
                  ELSE [res EXCEPT !.resolver = resolver, !.pc = "loop"]
    /\ UNCHANGED program

\* lines 219-222: one iteration of the loop; results keeps what each call was
\* answered and what it returned
ResolveCall ==
    /\ res.pc = "loop"
    /\ Loops(res.resolved, res.count)
    /\ \E reply \in Replies :
          LET resolved == CallResolver(res.resolver, res.url, reply)
          IN  res' = [res EXCEPT !.resolved = resolved,
                                 !.count = @ + 1,
                                 !.results = Append(@, [reply |-> reply, result |-> resolved])]
    /\ UNCHANGED program

\* line 223: return resolved
ResolveReturn ==
    /\ \/ res.pc = "return"
       \/ res.pc = "loop" /\ ~Loops(res.resolved, res.count)
    /\ res' = [res EXCEPT !.pc = "returned"]
    /\ UNCHANGED program

(***************************************************************************)
(* The filesystem.                                                         *)
(***************************************************************************)
\* os.path.isdir
IsDir(d) == d \in dirs

\* a test that finds no file
check_file_never(path) == FALSE

\* os.path.isfile, check_file
check_file(path) == path \in DOMAIN files

\* the files after writing content to path
Written(fs, path, content) == [p \in DOMAIN fs \cup {path} |-> IF p = path THEN content ELSE fs[p]]

\* remove(filename): os.remove with every error swallowed
remove(fs, path) == [p \in DOMAIN fs \ {path} |-> fs[p]]

\* whether os.mkdir(d) succeeds: d must not exist and its parent must
MkdirOk(d) == d \notin dirs /\ Dirname(d) \in dirs

(***************************************************************************)
(* download_wordlists: the selection.                                      *)
(***************************************************************************)
\* wordlists_count: the sum of the categories' cached counts
wordlists_count(repo) == SumSeq([k \in 1..Len(repo) |-> repo[k]["count"]])

\* the position of the category named n in the catalog
CatIndex(repo, n) == CHOOSE k \in 1..Len(repo) : repo[k].name = n

\* a reference to the entry object repo[ci]["files"][fi], with its category's name
Ref(repo, ci, fi) == [cat |-> repo[ci].name, ci |-> ci, fi |-> fi]

\* the entries of category ci, as a list of references
Refs(repo, ci) == [j \in 1..Len(repo[ci].files) |-> Ref(repo, ci, j)]

\* a loop that stops after the first category
FlattenFirst(repo, ci) == IF ci > Len(repo) THEN <<>> ELSE Refs(repo, ci)

RECURSIVE Flatten(_, _)
\* the nested loops over lst.keys() and lst[i]["files"], from category ci on
Flatten(repo, ci) == IF ci > Len(repo) THEN <<>> ELSE Refs(repo, ci) \o Flatten(repo, ci + 1)

RECURSIVE Owner(_, _, _, _)
\* the loop that adds up counts until (wordlist_id - 1) < count: the category it
\* breaks at (0 when it runs off the end) and the value of count when it ends
Owner(repo, wordlist_id, ci, count) ==
    IF ci > Len(repo) THEN [cat |-> 0, count |-> count]
    ELSE LET c == count + repo[ci]["count"]
         IN  IF (wordlist_id - 1) < c THEN [cat |-> ci, count |-> c]
             ELSE Owner(repo, wordlist_id, ci + 1, c)

\* an index that forgets the entries counted before the owning category
WidFromStart(wordlist_id, count) == wordlist_id - 1

\* wid, the index into the owning category's files
Wid(wordlist_id, count) == (wordlist_id - 1) - count

\* whether wordlist_id is refused before anything is selected
InvalidId(wordlist_id, count) == (wordlist_id >= count + 1) \/ wordlist_id < 0

\* the 1-based id used as a list index
ActiveIndexRaw(wordlist_id) == wordlist_id

\* the list index download_wordlists uses when a category is active (line 384)
ActiveIndex(wordlist_id) == wordlist_id - 1

\* the references files[i] yields, with Python's indexing, for category ci
Pick(repo, ci, i) ==
    LET got == PyIndex(Refs(repo, ci), i)
    IN  IF got = <<>> THEN [err |-> "IndexError: list index out of range", lst |-> <<>>]
        ELSE [err |-> "", lst |-> got]

\* lines 367-396: the exception raised ("" if none) and the entries selected
Selection(repo, wordlist_id, category) ==
    IF InvalidId(wordlist_id, wordlists_count(repo))
    THEN [err |-> "IndexError: not a valid wordlist id", lst |-> <<>>]
    ELSE IF wordlist_id = 0
    THEN IF category = ""
         THEN [err |-> "", lst |-> Flatten(repo, 1)]
         ELSE [err |-> "", lst |-> Refs(repo, CatIndex(repo, category))]
    ELSE IF category # ""
    THEN Pick(repo, CatIndex(repo, category), ActiveIndex(wordlist_id))
    ELSE LET own == Owner(repo, wordlist_id, 1, 0)
         IN  IF own.cat = 0 THEN [err |-> "KeyError", lst |-> <<>>]
             ELSE Pick(repo, own.cat, Wid(wordlist_id, own.count))

(***************************************************************************)
(* The main thread.                                                        *)
(***************************************************************************)
\* the status of a process ended by sys.exit(n) or exit(n): n in eight bits
ExitStatus(n) == <<n % 256>>

\* main, lines 640-654, and line 659: main returns 0 when the operation returned
\* and -1 when it raised an Exception; sys.exit ends the process with that value
MainStatus(raised) == IF raised THEN ExitStatus(0 - 1) ELSE ExitStatus(0)

\* line 365, check_dir(wordlist_path): creates the base directory if absent;
\* a failing mkdir ends the process with exit(-1)
DW_CheckDir ==
    /\ mainpc = "check_dir"
    /\ IF IsDir(wordlist_path)
       THEN /\ mainpc' = "select"
            /\ dirs' = dirs
       ELSE IF MkdirOk(wordlist_path)
       THEN /\ mainpc' = "select"
            /\ dirs' = dirs \cup {wordlist_path}
       ELSE /\ mainpc' = "exit"
            /\ dirs' = dirs
    /\ exit_status' = IF mainpc' = "exit" THEN ExitStatus(0 - 1) ELSE exit_status
    /\ UNCHANGED <<wordlist_repo, config, res, files, cwd, torrent_session, sessions, network,
                   lst, error, tasks>>

\* lines 367-396 and 401-402: the selection; an exception is caught and reported,
\* download_wordlists returns and main returns after it
DW_Select ==
    /\ mainpc = "select"
    /\ LET sel == Selection(wordlist_repo, code, selected_category)
       IN  /\ error' = sel.err
           /\ lst' = sel.lst
           /\ mainpc' = IF sel.err = "" THEN "submit" ELSE "returned"
           /\ exit_status' = IF sel.err = "" THEN exit_status ELSE MainStatus(FALSE)
    /\ UNCHANGED <<wordlist_repo, config, res, dirs, files, cwd, torrent_session, sessions,
                   network, tasks>>

\* a work item as submit() queues it
NewTask(ref) ==
    [cat |-> ref.cat, ci |-> ref.ci, fi |-> ref.fi,
     wordlistname |-> wordlist_repo[ref.ci].files[ref.fi].name,
     pc |-> "queued", tries |-> 0, url |-> "", file_path |-> "", csum |-> "",
     arg |-> "", steps |-> <<>>, raised |-> 0, other |-> FALSE, session |-> 0,
     result |-> ""]

\* line 399: parallel_executer.submit(download_wordlist, j, j["name"], i)
DW_Submit ==
    /\ mainpc = "submit"
    /\ lst # <<>>
    /\ tasks' = Append(tasks, NewTask(Head(lst)))
    /\ lst' = Tail(lst)
    /\ UNCHANGED <<wordlist_repo, config, res, exit_status, dirs, files, cwd, torrent_session, sessions,
                   network, mainpc, error>>

\* whether a work item has ended
Finished(t) == tasks[t].pc = "done"

\* a shutdown that does not wait for the work items
DW_ShutdownNoWait ==
    /\ mainpc = "submit"
    /\ lst = <<>>
    /\ mainpc' = "returned"
    /\ exit_status' = MainStatus(FALSE)
    /\ UNCHANGED <<wordlist_repo, config, res, dirs, files, cwd, torrent_session, sessions,
                   network, lst, error, tasks>>

\* line 400: parallel_executer.shutdown(wait=True) returns once every item ended;
\* download_wordlists returns and main returns after it
DW_Shutdown ==
    /\ mainpc = "submit"
    /\ lst = <<>>
    /\ \A t \in 1..Len(tasks) : Finished(t)
    /\ mainpc' = "returned"
    /\ exit_status' = MainStatus(FALSE)
    /\ UNCHANGED <<wordlist_repo, config, res, dirs, files, cwd, torrent_session, sessions,
                   network, lst, error, tasks>>

(***************************************************************************)
(* The worker pool and download_wordlist.                                  *)
(***************************************************************************)
\* the work items a worker thread is executing
Running == {t \in 1..Len(tasks) : tasks[t].pc \notin {"queued", "done"}}

\* the entry object a work item was submitted with (config)
Entry(t) == wordlist_repo[tasks[t].ci].files[tasks[t].fi]

\* file_directory
FileDirectory(t) == wordlist_path \o "/" \o tasks[t].cat

\* one call of the current attempt and how it ended
Step(call, out) ==
    [call |-> call, out |-> out, warned |-> FALSE, hashed |-> FALSE, dlurl |-> ""]

\* the work item after one more call of the current attempt
Did(task, step) == [task EXCEPT !.steps = Append(@, step)]

\* a retry loop written range(0, max_retry): one iteration short
RetryRangeShort == max_retry

\* range(0, max_retry + 1): the number of iterations of the retry loop
RetryRange == max_retry + 1

\* lines 356-358: the except clause of the retry loop, after the call `step` raised;
\* raised counts the attempts that ended here, other tells whether one of them
\* ended in a call that is not a fetch
Caught(task, step) ==
    [Did(task, step) EXCEPT !.raised = @ + 1,
                            !.other = @ \/ step.call \notin {"fetch_file", "fetch_torrent"},
                            !.pc = "loop"]

\* an exit(-1) inside a work item: SystemExit passes `except Exception` and ends the
\* item; the pool stores it in the item's future
Exited(task, step) == [Did(task, step) EXCEPT !.pc = "done", !.result = "SystemExit"]

\* the work item after download_wordlist returned through the break of line 355
Broke(task, step) == [Did(task, step) EXCEPT !.pc = "done", !.result = "success"]

\* a pool that stops taking work items once one of them has not succeeded
CanStartUnlessFailed(t) ==
    /\ tasks[t].pc = "queued"
    /\ \A u \in 1..(t - 1) : tasks[u].pc # "queued"
    /\ \A u \in 1..Len(tasks) : tasks[u].result \in {"", "success"}
    /\ Cardinality(Running) < max_parallel

\* whether a worker thread takes work item t now: it is the oldest queued item and
\* fewer than max_parallel items are being executed
CanStart(t) ==
    /\ tasks[t].pc = "queued"
    /\ \A u \in 1..(t - 1) : tasks[u].pc # "queued"
    /\ Cardinality(Running) < max_parallel

\* a free worker thread takes the oldest queued work item and runs download_wordlist
\* up to the os.path.isdir test of check_dir (lines 328 and 483)
Start(t) ==
    /\ CanStart(t)
    /\ tasks' = [tasks EXCEPT ![t].pc = IF IsDir(FileDirectory(t)) THEN "loop" ELSE "mkdir"]
    /\ UNCHANGED <<wordlist_repo, config, res, exit_status, dirs, files, cwd, torrent_session, sessions,
                   network, mainpc, lst, error>>

\* check_dir, lines 487-490: os.mkdir, and exit(-1) when it raises
CheckDirMkdir(t) ==
    /\ tasks[t].pc = "mkdir"
    /\ IF MkdirOk(FileDirectory(t))
       THEN /\ dirs' = dirs \cup {FileDirectory(t)}
            /\ tasks' = [tasks EXCEPT ![t].pc = "loop"]
       ELSE /\ dirs' = dirs
            /\ tasks' = [tasks EXCEPT ![t] = Exited(@, Step("check_dir", "exit"))]
    /\ UNCHANGED <<wordlist_repo, config, res, exit_status, files, cwd, torrent_session, sessions,
                   network, mainpc, lst, error>>

\* a choice that ignores prefer_http
ChosenUrlFirst(urls) == urls[1]

\* lines 337-340: the URL chosen from the sorted list
ChosenUrl(urls) == IF prefer_http THEN urls[1] ELSE urls[Len(urls)]

\* line 343: config["sum"][config["url"].index(url)], on the lists as they now are
ChosenSum(entry, url) == entry["sum"][ListIndex(entry["url"], url) + 1]

\* line 335: urls.sort() sorts the entry's own list in place
SortedInPlace(entry) == [entry EXCEPT !["url"] = Sorted(@)]

\* a dispatch that hands every torrent URL to fetch_torrent at once
FirstCallDirect(url) ==
    IF StartsWith(url, "http") THEN "fetch_file" ELSE "fetch_torrent"

\* the first call of an attempt for the chosen URL (lines 344-352)
FirstCall(url) ==
    IF StartsWith(url, "http") THEN "fetch_file"
    ELSE IF StartsWith(Replace(url, "torrent+"), "magnet:?") THEN "fetch_torrent"
    ELSE "fetch_file"

\* lines 331-343: the loop head and the start of an attempt
Begin(t) ==
    /\ tasks[t].pc = "loop"
    /\ IF tasks[t].tries >= RetryRange
       THEN /\ tasks' = [tasks EXCEPT ![t].pc = "done", ![t].result = "failed"]
            /\ UNCHANGED wordlist_repo
       ELSE LET entry == SortedInPlace(Entry(t))
                url == ChosenUrl(entry["url"])
            IN  /\ wordlist_repo' = [wordlist_repo EXCEPT ![tasks[t].ci].files[tasks[t].fi] = entry]
                /\ tasks' = [tasks EXCEPT ![t].tries = @ + 1,
                                          ![t].url = url,
                                          ![t].file_path = FileDirectory(t) \o "/" \o LastSegment(url),
                                          ![t].csum = ChosenSum(entry, url),
                                          ![t].arg = "",
                                          ![t].steps = <<>>,
                                          ![t].pc = FirstCall(url)]
    /\ UNCHANGED <<config, res, exit_status, dirs, files, cwd, torrent_session, sessions, network, mainpc,
                   lst, error>>

\* fetch_file, lines 257-271, called at line 345 or 352: nothing is done for a file
\* that exists; else dlurl is what resolve returns, the GET raises (as it does for
\* an empty dlurl) or the body (the payload or something else) is written to path;
\* an exception is caught at 356
FetchFile(t) ==
    /\ tasks[t].pc = "fetch_file"
    /\ LET path == tasks[t].file_path
           url == IF StartsWith(tasks[t].url, "http") THEN tasks[t].url
                  ELSE Replace(tasks[t].url, "torrent+")
       IN  IF check_file(path)
           THEN /\ tasks' = [tasks EXCEPT ![t] = [Did(@, Step("fetch_file", "exists"))
                                                   EXCEPT !.pc = "integrity_check"]]
                /\ UNCHANGED <<files, network>>
           ELSE /\ network' = TRUE
                /\ \E dlurl \in ResolveResults(url) :
                      \/ /\ tasks' = [tasks EXCEPT ![t] =
                                  Caught(@, [Step("fetch_file", "raise") EXCEPT !.dlurl = dlurl])]
                         /\ files' = remove(files, path)
                      \/ /\ dlurl # ""
                         /\ \E content \in {Payload(dlurl), Corrupt} :
                               /\ files' = Written(files, path, content)
                               /\ tasks' = [tasks EXCEPT ![t] =
                                      [Did(@, [Step("fetch_file", "ok") EXCEPT !.dlurl = dlurl])
                                          EXCEPT !.pc = "integrity_check"]]
    /\ UNCHANGED <<wordlist_repo, config, res, exit_status, dirs, cwd, torrent_session, sessions, mainpc,
                   lst, error>>

\* integrity_check, lines 244-245: whether the skip warning is printed
SkipWarned(checksum) == checksum = "SKIP" \/ skip_integrity_check

\* integrity_check, lines 246-252: whether the digest of the file is computed
Hashes(checksum) == TRUE

\* a comparison that accepts every digest
IntegrityFailsNever(checksum, content) == FALSE

\* integrity_check, lines 253-254: whether IOError is raised for a file of this content
IntegrityFails(checksum, content) == checksum # Md5(content)

\* integrity_check, lines 239-254, called at line 346 or 353
IntegrityCheck(t) ==
    /\ tasks[t].pc = "integrity_check"
    /\ LET path == tasks[t].file_path
           checksum == tasks[t].csum
           step == [Step("integrity_check", "ok") EXCEPT !.warned = SkipWarned(checksum),
                                                         !.hashed = Hashes(checksum)]
       IN  IF ~check_file(path) \/ (Hashes(checksum) /\ IntegrityFails(checksum, files[path]))
           THEN /\ tasks' = [tasks EXCEPT ![t] = Caught(@, [step EXCEPT !.out = "raise"])]
                /\ files' = remove(files, path)
           ELSE /\ tasks' = [tasks EXCEPT ![t] =
                        [Did(@, step) EXCEPT !.arg = path,
                                             !.pc = IF StartsWith(tasks[t].url, "http")
                                                    THEN "decompress" ELSE "fetch_torrent"]]
                /\ files' = files
    /\ UNCHANGED <<wordlist_repo, config, res, exit_status, dirs, cwd, torrent_session, sessions, network,
                   mainpc, lst, error>>

(***************************************************************************)
(* decompress.                                                             *)
(***************************************************************************)
\* re.fullmatch(r"^.*\.(ext)$", name) for a literal ext
HasSuffix(name, ext) == EndsWith(name, "." \o ext)

\* the same for "tar.gz", "tar.xz", "tar.bz2", whose dot matches any character
HasTarSuffix(name, ext) ==
    /\ EndsWith(name, ext)
    /\ Len(name) >= Len(ext) + 5
    /\ SubSeq(name, Len(name) - Len(ext) - 4, Len(name) - Len(ext) - 1) = ".tar"

\* line 145
IsRar(filename) == HasSuffix(Lower(filename), "rar")

\* line 149
IsArchive(filename) ==
    LET n == Lower(filename)
    IN  \/ HasSuffix(n, "zip") \/ HasSuffix(n, "7z") \/ HasSuffix(n, "tar")
        \/ HasTarSuffix(n, "gz") \/ HasTarSuffix(n, "xz") \/ HasTarSuffix(n, "bz2")

\* lines 153-158, on the whole path
IsStream(filepath) ==
    LET n == Lower(filepath)
    IN  \/ HasSuffix(n, "gz") \/ HasSuffix(n, "bz") \/ HasSuffix(n, "bz2")
        \/ HasSuffix(n, "lzma") \/ HasSuffix(n, "xz")

\* what a decompression filter or an extraction yields for an input
Unpacked(content) == "un(" \o content \o ")"

\* decompress, lines 142-164, up to the extraction of an archive: chdir for the
\* archive families, the stream copy for the stream families, ValueError otherwise
Decompress(t) ==
    /\ tasks[t].pc = "decompress"
    /\ LET filepath == tasks[t].arg
           filename == LastSegment(filepath)
       IN  IF IsRar(filename) \/ IsArchive(filename)
           THEN /\ cwd' = Dirname(filepath)
                /\ tasks' = [tasks EXCEPT ![t].pc = "extract"]
                /\ files' = files
           ELSE IF IsStream(filepath) /\ check_file(filepath)
           THEN /\ files' = Written(files, SplitExtRoot(filepath), Unpacked(files[filepath]))
                /\ tasks' = [tasks EXCEPT ![t] = Broke(@, Step("decompress", "ok"))]
                /\ cwd' = cwd
           ELSE /\ files' = remove(files, tasks[t].file_path)
                /\ tasks' = [tasks EXCEPT ![t] = Caught(@, Step("decompress", "raise"))]
                /\ cwd' = cwd
    /\ UNCHANGED <<wordlist_repo, config, res, exit_status, dirs, torrent_session, sessions, network, mainpc,
                   lst, error>>

\* lines 147-148 and 151: the archive is opened by its path and its member is
\* written relative to the working directory of that moment
Extract(t) ==
    /\ tasks[t].pc = "extract"
    /\ LET filepath == tasks[t].arg
       IN  IF check_file(filepath)
           THEN /\ files' = Written(files, cwd \o "/" \o SplitExtRoot(LastSegment(filepath)),
                                    Unpacked(files[filepath]))
                /\ tasks' = [tasks EXCEPT ![t] = Broke(@, Step("decompress", "ok"))]
           ELSE /\ files' = remove(files, tasks[t].file_path)
                /\ tasks' = [tasks EXCEPT ![t] = Caught(@, Step("decompress", "raise"))]
    /\ UNCHANGED <<wordlist_repo, config, res, exit_status, dirs, cwd, torrent_session, sessions, network,
                   mainpc, lst, error>>

(***************************************************************************)
(* fetch_torrent.                                                          *)
(***************************************************************************)
\* the url argument of fetch_torrent: line 350 strips the prefix, line 354 does not
TorrentArg(url) ==
    IF StartsWith(Replace(url, "torrent+"), "magnet:?") THEN Replace(url, "torrent+") ELSE url

\* line 277: the test torrent_session is None
SessionTest(t) ==
    /\ tasks[t].pc = "fetch_torrent"
    /\ tasks' = [tasks EXCEPT ![t].pc = IF torrent_session = 0 THEN "session" ELSE "add"]
    /\ UNCHANGED <<wordlist_repo, config, res, exit_status, dirs, files, cwd, torrent_session, sessions,
                   network, mainpc, lst, error>>

\* lines 278-280: a new session object is created and bound to the global
SessionCreate(t) ==
    /\ tasks[t].pc = "session"
    /\ sessions' = sessions + 1
    /\ torrent_session' = sessions + 1
    /\ tasks' = [tasks EXCEPT ![t].pc = "add"]
    /\ UNCHANGED <<wordlist_repo, config, res, exit_status, dirs, files, cwd, network, mainpc, lst, error>>

\* lines 281-314: the transfer is registered with the session the global names at
\* that moment (add_magnet_uri may raise); in torrent-file mode the call returns when torrent downloads are disabled
\* and calls exit(-1) when the .torrent file is missing
TorrentAdd(t) ==
    /\ tasks[t].pc = "add"
    /\ LET path == tasks[t].file_path
       IN  IF StartsWith(TorrentArg(tasks[t].url), "magnet:?")
           THEN /\ network' = TRUE
                /\ \/ /\ tasks' = [tasks EXCEPT ![t].pc = "seed", ![t].session = torrent_session]
                      /\ files' = files
                   \/ /\ tasks' = [tasks EXCEPT ![t] = Caught(@, Step("fetch_torrent", "raise"))]
                      /\ files' = remove(files, path)
           ELSE IF ~torrent_dl
           THEN /\ tasks' = [tasks EXCEPT ![t] = Broke(@, Step("fetch_torrent", "disabled"))]
                /\ UNCHANGED <<files, network>>
           ELSE IF check_file(path)
           THEN /\ tasks' = [tasks EXCEPT ![t].pc = "seed", ![t].session = torrent_session]
                /\ files' = remove(files, path)
                /\ network' = TRUE
           ELSE /\ tasks' = [tasks EXCEPT ![t] = Exited(@, Step("fetch_torrent", "exit"))]
                /\ UNCHANGED <<files, network>>
    /\ UNCHANGED <<wordlist_repo, config, res, exit_status, dirs, cwd, torrent_session, sessions, mainpc,
                   lst, error>>

\* lines 315-321: the transfer completes under the swarm's name for it, the handle is
\* removed from the session, and the file is handed to decompress
TorrentSeed(t) ==
    /\ tasks[t].pc = "seed"
    /\ LET source == TorrentArg(tasks[t].url)
           outfilename == Dirname(tasks[t].file_path) \o "/" \o TorrentName(source)
       IN  /\ files' = Written(files, outfilename, Payload(source))
           /\ tasks' = [tasks EXCEPT ![t] = [Did(@, Step("fetch_torrent", "ok"))
                                              EXCEPT !.arg = outfilename, !.pc = "decompress"]]
    /\ UNCHANGED <<wordlist_repo, config, res, exit_status, dirs, cwd, torrent_session, sessions, network,
                   mainpc, lst, error>>

(***************************************************************************)
(* The runs.                                                               *)
(***************************************************************************)
\* the ids -f is given: from one below the valid ones to one above
Ids(repo) == (0 - 1)..(wordlists_count(repo) + 1)

\* the categories -c can choose, and "" for none
Categories(repo) == {""} \cup {repo[k].name : k \in 1..Len(repo)}

\* the flag options of a command line: at most MaxOpts of -h -X -I -T
Options == {o \in SUBSET {"-h", "-X", "-I", "-T"} : Cardinality(o) <= MaxOpts}

Init ==
    /\ loaded_repo \in Catalogs
    /\ wordlist_repo = loaded_repo
    /\ selected_category \in Categories(loaded_repo)
    /\ code \in Ids(loaded_repo)
    /\ \E opts \in Options :
          /\ prefer_http = ("-h" \in opts)
          /\ decompress_archive = ("-X" \in opts)
          /\ skip_integrity_check = ("-I" \in opts)
          /\ torrent_dl = ("-T" \notin opts)
    /\ max_retry \in 0..MaxRetry
    /\ max_parallel \in {1, DefaultMaxParallel}
    /\ dirs \in {{"/usr/share"}, {"/usr/share", wordlist_path}}
    /\ files = << >>
    /\ cwd = "/root"
    /\ torrent_session = 0
    /\ sessions = 0
    /\ network = FALSE
    /\ mainpc = "check_dir"
    /\ lst = <<>>
    /\ error = ""
    /\ tasks = <<>>
    /\ exit_status = <<>>
    /\ res = NoCall

Next ==
    \/ DW_CheckDir
    \/ DW_Select
    \/ DW_Submit
    \/ DW_Shutdown
    \/ \E t \in 1..Len(tasks) : Start(t)
    \/ \E t \in 1..Len(tasks) : CheckDirMkdir(t)
    \/ \E t \in 1..Len(tasks) : Begin(t)
    \/ \E t \in 1..Len(tasks) : FetchFile(t)
    \/ \E t \in 1..Len(tasks) : IntegrityCheck(t)
    \/ \E t \in 1..Len(tasks) : Decompress(t)
    \/ \E t \in 1..Len(tasks) : Extract(t)
    \/ \E t \in 1..Len(tasks) : SessionTest(t)
    \/ \E t \in 1..Len(tasks) : SessionCreate(t)
    \/ \E t \in 1..Len(tasks) : TorrentAdd(t)
    \/ \E t \in 1..Len(tasks) : TorrentSeed(t)

Spec == Init /\ [][Next]_vars

(***************************************************************************)
(* The calls of resolve, one at a time, in a process that does nothing     *)
(* else.                                                                   *)
(***************************************************************************)
\* the URLs resolve is called with: one on each indirect host, one of another
\* scheme on such a host, one on a direct host
ResolveUrls ==
    {"http://downloads.sourceforge.net/p/w.gz", "http://www.mediafire.com/file/k/w.gz",
     "https://downloads.sourceforge.net/p/w.gz", "http://h/a.txt.gz"}

InitResolve ==
    /\ loaded_repo = SameNameRepo
    /\ wordlist_repo = loaded_repo
    /\ selected_category = ""
    /\ code = 1
    /\ prefer_http = FALSE
    /\ decompress_archive = FALSE
    /\ skip_integrity_check = FALSE
    /\ torrent_dl = TRUE
    /\ max_retry = 0
    /\ max_parallel = DefaultMaxParallel
    /\ dirs = {"/usr/share", wordlist_path}
    /\ files = << >>
    /\ cwd = "/root"
    /\ torrent_session = 0
    /\ sessions = 0
    /\ network = FALSE
    /\ mainpc = "check_dir"
    /\ lst = <<>>
    /\ error = ""
    /\ tasks = <<>>
    /\ exit_status = <<>>
    /\ \E url \in ResolveUrls : res = Called(url)

NextResolve ==
    \/ ResolveChoose
    \/ ResolveCall
    \/ ResolveReturn

SpecResolve == InitResolve /\ [][NextResolve]_vars

(***************************************************************************)
(* Properties.                                                             *)
(***************************************************************************)
Tasks == 1..Len(tasks)

\* the catalog entry of a work item as it was loaded
LoadedEntry(t) == loaded_repo[tasks[t].ci].files[tasks[t].fi]

\* the references of the work items submitted so far, then those still to submit
Submitted == [t \in Tasks |-> [cat |-> tasks[t].cat, ci |-> tasks[t].ci, fi |-> tasks[t].fi]] \o lst

\* whether the selection has been made
Selected == mainpc \in {"submit", "returned"}

\* the entries of the loaded catalog, all categories in declaration order
AllEntries ==
    LET RECURSIVE Cat(_)
        Cat(k) == IF k > Len(loaded_repo) THEN <<>> ELSE loaded_repo[k].files \o Cat(k + 1)
    IN  Cat(1)

\* totalEntries, the bound the id is validated against
TotalEntries == wordlists_count(loaded_repo)

\* whether the work item started an attempt and every attempt it started ended with
\* its fetch step (fetch_file or fetch_torrent) raising
FetchAlwaysRaised(t) ==
    /\ tasks[t].tries >= 1
    /\ tasks[t].raised = tasks[t].tries
    /\ ~tasks[t].other

\* C1: an entry whose fetch raises on every attempt is attempted exactly
\* max_retry + 1 times and then ends as failed; no entry is ever attempted more
\* than max_retry + 1 times.
C1_RetryBound ==
    \A t \in Tasks :
        /\ tasks[t].tries <= max_retry + 1
        /\ (tasks[t].pc = "done" /\ FetchAlwaysRaised(t)) =>
               (tasks[t].tries = max_retry + 1 /\ tasks[t].result = "failed")

\* C1 witness: with a retry configured, an entry ended as failed after all its
\* attempts raised in their fetch step
C1_Witness ==
    \E t \in Tasks :
        /\ max_retry >= 1
        /\ tasks[t].pc = "done"
        /\ tasks[t].result = "failed"
        /\ FetchAlwaysRaised(t)
        /\ tasks[t].tries = max_retry + 1

\* the places of download_wordlist at which a work item takes a step
StepPcs ==
    {"mkdir", "loop", "fetch_file", "integrity_check", "decompress",
     "extract", "fetch_torrent", "session", "add", "seed"}

\* C2: whatever has failed so far, every work item that has not ended can still
\* run (a queued one is taken as soon as a thread is free, a taken one is at a place
\* where it steps), and download_wordlists returns only with every selected entry's
\* work item ended in an outcome of its own.
C2_SiblingsRun ==
    /\ (\E t \in Tasks : tasks[t].pc = "queued") =>
           (Running # {} \/ \E t \in Tasks : CanStart(t))
    /\ \A t \in Running : tasks[t].pc \in StepPcs
    /\ (mainpc = "returned" /\ error = "") =>
           (lst = <<>> /\ \A t \in Tasks : tasks[t].pc = "done" /\ tasks[t].result # "")

\* C2 witness: the run is over, one entry failed after exhausting its retries and
\* a sibling fetched and decompressed its file
C2_Witness ==
    /\ mainpc = "returned"
    /\ max_retry >= 1
    /\ \E t, u \in Tasks :
          /\ tasks[t].result = "failed"
          /\ tasks[t].tries = max_retry + 1
          /\ tasks[u].result = "success"
          /\ \E i \in 1..Len(tasks[u].steps) :
                tasks[u].steps[i].call = "decompress" /\ tasks[u].steps[i].out = "ok"

\* C3: the checksum verified for the chosen URL is the one stored at the position
\* the URL has in the entry's url list as loaded.
C3_ChecksumOfOriginalPosition ==
    \A t \in Tasks :
        tasks[t].url # "" => tasks[t].csum = ChosenSum(LoadedEntry(t), tasks[t].url)

\* C4: retrieval mutates no catalog entry: url, sum, name and size stay as loaded.
C4_CatalogUnchanged == wordlist_repo = loaded_repo

\* C5: integrity_check with the "SKIP" sentinel or with skip_integrity_check set
\* returns ok, computes no digest and raises nothing.
C5_SkipShortCircuits ==
    \A t \in Tasks : \A i \in 1..Len(tasks[t].steps) :
        LET step == tasks[t].steps[i]
        IN  (step.call = "integrity_check" /\ step.warned) =>
                (step.out = "ok" /\ ~step.hashed)

\* whether decompress has been invoked in the work item's current attempt
DecompressInvoked(t) ==
    \/ tasks[t].pc = "extract"
    \/ \E i \in 1..Len(tasks[t].steps) : tasks[t].steps[i].call = "decompress"

\* C6: on the HTTP path decompress is invoked only when decompress_archive is set.
C6_DecompressOnlyWhenConfigured ==
    \A t \in Tasks :
        (StartsWith(tasks[t].url, "http") /\ DecompressInvoked(t)) => decompress_archive

\* C7: with no active category and 1 <= id <= totalEntries the selection is exactly
\* one entry, and the (category, entry) found by cumulative counting is element
\* id - 1 of the concatenation of all categories' entries in declaration order.
C7_GlobalIdSelectsFlattened ==
    (Selected /\ selected_category = "" /\ 1 <= code /\ code <= TotalEntries) =>
        /\ error = ""
        /\ Len(Submitted) = 1
        /\ loaded_repo[Submitted[1].ci].name = Submitted[1].cat
        /\ loaded_repo[Submitted[1].ci].files[Submitted[1].fi] = AllEntries[code]

\* C7 witness: an id beyond the first category selected an entry of the second
C7_Witness ==
    /\ mainpc = "returned"
    /\ selected_category = ""
    /\ code >= 2
    /\ Len(tasks) = 1
    /\ tasks[1].ci = 2
    /\ loaded_repo[1]["count"] >= 1

\* the number of entries of the active category
ActiveCount == Len(loaded_repo[CatIndex(loaded_repo, selected_category)].files)

\* C8 as stated: with an active category, every id in 1..totalEntries selects
\* exactly the id-th entry of the active category.
C8_AsStated ==
    (Selected /\ selected_category # "" /\ 1 <= code /\ code <= TotalEntries) =>
        /\ error = ""
        /\ Submitted = <<[cat |-> selected_category,
                          ci |-> CatIndex(loaded_repo, selected_category), fi |-> code]>>

\* C8 amended: with an active category, an id in 1..(entries of that category)
\* selects exactly the id-th entry of the active category and no other entry; an id
\* above that, up to totalEntries, selects nothing and ends in an IndexError.
C8_ActiveCategoryId ==
    (Selected /\ selected_category # "" /\ 1 <= code /\ code <= TotalEntries) =>
        IF code <= ActiveCount
        THEN /\ error = ""
             /\ Submitted = <<[cat |-> selected_category,
                               ci |-> CatIndex(loaded_repo, selected_category), fi |-> code]>>
        ELSE /\ error = "IndexError: list index out of range"
             /\ Submitted = <<>>
             /\ mainpc = "returned"

\* C8 witness: the second entry of the active category was selected and submitted
C8_Witness ==
    /\ selected_category # ""
    /\ code = 2
    /\ Len(tasks) = 1
    /\ tasks[1].fi = 2
    /\ tasks[1].cat = selected_category

\* the references of all entries of the categories in ks
RefSet(ks) ==
    UNION {{[cat |-> loaded_repo[k].name, ci |-> k, fi |-> j] :
               j \in 1..Len(loaded_repo[k].files)} : k \in ks}

\* C9: for id 0 the work items submitted are as many as the active category's
\* count, or the catalog's total count with no active category, one per selected
\* entry and none twice.
C9_IdZeroSelectsAll ==
    (Selected /\ code = 0) =>
        LET ks == IF selected_category = "" THEN 1..Len(loaded_repo)
                  ELSE {CatIndex(loaded_repo, selected_category)}
        IN  /\ error = ""
            /\ Len(Submitted) = SumSeq([k \in 1..Len(loaded_repo) |->
                                           IF k \in ks THEN loaded_repo[k]["count"] ELSE 0])
            /\ {Submitted[i] : i \in 1..Len(Submitted)} = RefSet(ks)
            /\ (mainpc = "returned" => Len(tasks) = Len(Submitted))

\* C9 witness: id 0 with no active category submitted entries of two categories
C9_Witness ==
    /\ code = 0
    /\ selected_category = ""
    /\ mainpc = "returned"
    /\ Len(tasks) = 2
    /\ tasks[1].ci # tasks[2].ci

\* whether the id is outside 0..totalEntries
OutOfRange == code < 0 \/ code > TotalEntries

\* C10: for id < 0 or id > totalEntries download_wordlists ends in a selection
\* error, submits no task, and no step of it changes the filesystem or uses the
\* network.
C10_InvalidIdNoEffects ==
    /\ [](OutOfRange => (tasks = <<>> /\ (mainpc = "returned" => error # "")))
    /\ [][OutOfRange => (dirs' = dirs /\ files' = files /\ network' = network)]_vars

\* C11: a run of download_wordlists with an id outside 0..totalEntries ends the
\* process with a non-zero status.
C11_InvalidIdNonZeroStatus == (OutOfRange /\ exit_status # <<>>) => exit_status # <<0>>

\* whether fetch_torrent found the .torrent file missing in work item t
TorrentFileMissing(t) ==
    \E i \in 1..Len(tasks[t].steps) :
        tasks[t].steps[i].call = "fetch_torrent" /\ tasks[t].steps[i].out = "exit"

\* C12: once fetch_torrent, in torrent-file mode with torrent downloads enabled,
\* found the .torrent file missing, the process has ended with a non-zero status and
\* no work item takes another step or starts.
C12_MissingTorrentEndsProcess ==
    /\ []((\E t \in Tasks : TorrentFileMissing(t)) =>
              (exit_status # <<>> /\ exit_status # <<0>>))
    /\ [][(\E t \in Tasks : TorrentFileMissing(t)) => tasks' = tasks]_vars

\* C13: at most one torrent session object is created during a run, and all
\* transfers are registered with the same session.
C13_OneTorrentSession ==
    /\ sessions <= 1
    /\ \A t, u \in Tasks :
           (tasks[t].session # 0 /\ tasks[u].session # 0) => tasks[t].session = tasks[u].session

\* whether check_dir ended work item t with exit(-1)
CheckDirFailed(t) ==
    \E i \in 1..Len(tasks[t].steps) :
        tasks[t].steps[i].call = "check_dir" /\ tasks[t].steps[i].out = "exit"

\* C14: whatever the interleaving, check_dir fails in no work item: every work item
\* that has passed it is in or beyond its retry loop with the category directory
\* in place.
C14_CheckDirRaceTolerant ==
    \A t \in Tasks :
        tasks[t].pc \notin {"queued", "mkdir"} =>
            (~CheckDirFailed(t) /\ IsDir(FileDirectory(t)))

\* C15: the work items submitted are the selected entries, one each; never more
\* than max_parallel of them are executing; and download_wordlists returns only
\* when every one of them has been submitted and has finished.
C15_OneTaskEachBoundedAndAwaited ==
    /\ Cardinality(Running) <= max_parallel
    /\ (Selected /\ error = "") =>
           /\ Submitted = Selection(loaded_repo, code, selected_category).lst
           /\ Cardinality({Submitted[i] : i \in 1..Len(Submitted)}) = Len(Submitted)
    /\ (mainpc = "returned" /\ error = "") =>
           (lst = <<>> /\ \A t \in Tasks : Finished(t))

\* C15 witness: with max_parallel 1 one work item is executing while the other
\* waits in the queue
C15_Witness ==
    /\ max_parallel = 1
    /\ Len(tasks) = 2
    /\ lst = <<>>
    /\ Cardinality(Running) = 1
    /\ \E t \in Tasks : tasks[t].pc = "queued"

\* the files of work item t: its destination path and the file it handed to
\* decompress or fetch_torrent
OwnPaths(t) == {tasks[t].file_path, tasks[t].arg} \ {""}

\* C16: once an entry has ended as failed, none of the files its attempts wrote is
\* left (for an entry that shares its destination path with no other entry).
C16_FailedEntryLeavesNoFile ==
    \A t \in Tasks :
        (/\ tasks[t].result = "failed"
         /\ \A u \in Tasks \ {t} : tasks[u].file_path # tasks[t].file_path) =>
            \A p \in OwnPaths(t) : ~check_file(p)

\* the candidate URLs of work item t's entry
Candidates(t) == {LoadedEntry(t).url[i] : i \in 1..Len(LoadedEntry(t).url)}

\* the url list ["http://b/file", "http://a/file"] after urls.sort()
ExampleUrls == Sorted(<<"http://b/file", "http://a/file">>)

\* C17: at every attempt the URL chosen is the lexicographically smallest of the
\* entry's candidate URLs when prefer_http is set and the largest otherwise (hence
\* the same at every attempt); for ["http://b/file", "http://a/file"] it is
\* "http://a/file" with prefer_http and "http://b/file" without.
C17_ChosenUrlIsExtreme ==
    /\ \A t \in Tasks :
           tasks[t].url # "" =>
               /\ tasks[t].url \in Candidates(t)
               /\ \A v \in Candidates(t) :
                      IF prefer_http THEN ~StrLess(v, tasks[t].url)
                      ELSE ~StrLess(tasks[t].url, v)
    /\ ChosenUrl(ExampleUrls) =
           (IF prefer_http THEN "http://a/file" ELSE "http://b/file")

\* C17 witness: a second attempt chose among two candidate URLs
C17_Witness ==
    \E t \in Tasks :
        /\ tasks[t].tries = 2
        /\ Cardinality(Candidates(t)) = 2
        /\ tasks[t].url = (IF prefer_http THEN "http://a/f.gz" ELSE "http://b/f.gz")

\* whether this step is work item t's call of integrity_check on an existing file
ChecksIntegrity(t) ==
    /\ tasks[t].pc = "integrity_check"
    /\ tasks'[t].pc # "integrity_check"
    /\ check_file(tasks[t].file_path)

FetchesExisting(t) ==
    /\ tasks[t].pc = "fetch_file"
    /\ tasks'[t].pc # "fetch_file"
    /\ tasks[t].file_path \in DOMAIN files

\* C19: fetch_file for a path at which a file exists resolves no URL, makes no
\* network request and changes no file, so a second call for the same path adds
\* nothing to the first.
C19_FetchExistingIsNoOp ==
    [][\A t \in Tasks :
          FetchesExisting(t) =>
              /\ files' = files
              /\ network' = network
              /\ res' = res
              /\ LET last == tasks'[t].steps[Len(tasks'[t].steps)]
                 IN  last.call = "fetch_file" /\ last.out = "exists" /\ last.dlurl = ""]_vars

\* C19 witness: one work item fetched a file and another, called for the same
\* path, found it there
C19_Witness ==
    \E t, u \in Tasks :
        /\ t # u
        /\ tasks[t].file_path = tasks[u].file_path
        /\ \E i \in 1..Len(tasks[t].steps) :
               tasks[t].steps[i].call = "fetch_file" /\ tasks[t].steps[i].out = "ok"
        /\ \E i \in 1..Len(tasks[u].steps) :
               tasks[u].steps[i].call = "fetch_file" /\ tasks[u].steps[i].out = "exists"

\* whether a URL is on one of the indirect hosts
Indirect(url) ==
    \/ StartsWith(url, "http://downloads.sourceforge.net/")
    \/ StartsWith(url, "http://www.mediafire.com/file/")

\* C20: for an indirect hosting URL resolve calls the resolver at most 10 times,
\* every call but the last having returned the empty string, and returns the last
\* call's result: the first non-empty one, or the empty string after 10 empty
\* ones; a call answered by an exception counts as empty.  For any other URL no
\* resolver is called and the URL is returned unchanged.
C20_ResolveRetries ==
    /\ res.count <= ResolveTries
    /\ Len(res.results) = res.count
    /\ \A i \in 1..Len(res.results) :
           res.results[i].reply = "raise" => res.results[i].result = ""
    /\ \A i \in 1..(res.count - 1) : res.results[i].result = ""
    /\ res.pc = "returned" =>
           IF Indirect(res.url)
           THEN /\ res.count >= 1
                /\ res.resolved = res.results[res.count].result
                /\ res.resolved = "" => res.count = ResolveTries
           ELSE res.count = 0 /\ res.resolved = res.url

\* C20 witness: on an indirect host the third call was the first to return a
\* non-empty result, and resolve returned it
C20_Witness ==
    /\ res.pc = "returned"
    /\ Indirect(res.url)
    /\ res.count = 3
    /\ res.resolved # ""

\* whether fetch_torrent has been invoked in the work item's current attempt
TorrentInvoked(t) ==
    \/ tasks[t].pc \in {"fetch_torrent", "session", "add", "seed"}
    \/ \E i \in 1..Len(tasks[t].steps) : tasks[t].steps[i].call = "fetch_torrent"

\* the attempt began with a fetch_file that returned, for a URL of the HTTP
\* scheme whenever it downloaded, and then an integrity_check that returned
FetchedAndChecked(t) ==
    /\ Len(tasks[t].steps) >= 2
    /\ tasks[t].steps[1].call = "fetch_file"
    /\ tasks[t].steps[1].out \in {"ok", "exists"}
    /\ tasks[t].steps[1].out = "ok" => StartsWith(tasks[t].steps[1].dlurl, "http")
    /\ tasks[t].steps[2].call = "integrity_check"
    /\ tasks[t].steps[2].out = "ok"

\* the URLs of the catalogs' entries, and those that name a magnet URI
CatalogUrls ==
    UNION {{e.url[i] : i \in 1..Len(e.url)} : e \in {EntryA, EntryS, EntryM, EntryT, EntryV, EntryZ, EntryY}}
MagnetUrls == {u \in CatalogUrls : StartsWith(Replace(u, "torrent+"), "magnet:?")}

\* the transports of a chosen URL
IsHttp(url) == StartsWith(url, "http")
IsMagnet(url) == ~IsHttp(url) /\ url \in MagnetUrls
IsHybrid(url) == url \in CatalogUrls /\ ~IsHttp(url) /\ ~IsMagnet(url)

\* C21: within one attempt, for an HTTP URL decompress is invoked only after
\* fetch_file and an integrity_check that returned; for a hybrid URL fetch_torrent
\* is invoked only after the descriptor's fetch_file over HTTP and an
\* integrity_check that returned; for a magnet URI fetch_torrent is the first
\* call and neither fetch_file nor integrity_check is ever called.
C21_OrderedByTransport ==
    \A t \in Tasks :
        LET url == tasks[t].url
            steps == tasks[t].steps
        IN  /\ (IsHttp(url) /\ (DecompressInvoked(t) \/ tasks[t].pc = "decompress")) =>
                   (FetchedAndChecked(t) /\ ~TorrentInvoked(t))
            /\ (IsHybrid(url) /\ TorrentInvoked(t)) => FetchedAndChecked(t)
            /\ IsMagnet(url) =>
                   /\ tasks[t].pc \notin {"fetch_file", "integrity_check"}
                   /\ \A i \in 1..Len(steps) :
                          steps[i].call \notin {"fetch_file", "integrity_check"}
                   /\ steps # <<>> => steps[1].call = "fetch_torrent"

\* a hybrid entry whose descriptor was downloaded and verified before its
\* transfer completed, next to a magnet entry whose transfer completed
C21_Witness ==
    \E t, u \in Tasks :
        /\ IsHybrid(tasks[t].url) /\ FetchedAndChecked(t) /\ tasks[t].steps[1].out = "ok"
        /\ Len(tasks[t].steps) >= 3 /\ tasks[t].steps[3] = Step("fetch_torrent", "ok")
        /\ IsMagnet(tasks[u].url)
        /\ tasks[u].steps # <<>> /\ tasks[u].steps[1] = Step("fetch_torrent", "ok")

\* the work item's current attempt extracted an archive
Extracted(t) ==
    /\ IsRar(LastSegment(tasks[t].arg)) \/ IsArchive(LastSegment(tasks[t].arg))
    /\ \E i \in 1..Len(tasks[t].steps) : tasks[t].steps[i] = Step("decompress", "ok")

\* where the member of the work item's archive belongs: beside the archive
OwnMember(t) == Dirname(tasks[t].arg) \o "/" \o SplitExtRoot(LastSegment(tasks[t].arg))

\* C22: every archive of the extracting families is extracted relative to its own
\* containing directory, whatever the other workers do meanwhile: once a work
\* item has extracted its archive, the member lies beside the archive.
C22_ExtractedBesideArchive ==
    \A t \in Tasks : Extracted(t) => OwnMember(t) \in DOMAIN files

====
